---------------------------- MODULE Spec2Model ----------------------------
(***************************************************************************)
(* A state-machine model of server.js (E-Mart backend): the cookie/JWT     *)
(* session lifecycle (register, login, me, logout) and the product         *)
(* catalog read paths (list, latest) next to the reseed endpoint.          *)
(*                                                                         *)
(* Conventions                                                             *)
(*  - An optional JavaScript value is a sequence of length <= 1:           *)
(*    << >> is undefined (absent), <<v>> is the value v.                   *)
(*  - Query-string values and product text fields are sequences of         *)
(*    one-character strings, so that Number(), the truthiness test and     *)
(*    $regex can be computed character by character.                       *)
(*  - Every await of a store call is a separate step: handlers of          *)
(*    different requests interleave at these points and nowhere else.      *)
(*  - The store is reachable: connectivity faults are not modelled.        *)
(*  - The clock unit is 7 days.                                            *)
(*  - The server starts on a database that an earlier POST /api/seed       *)
(*    filled; products.json, which the startup auto-seed would insert      *)
(*    into an empty database, is not part of the sources.                  *)
(***************************************************************************)
EXTENDS Integers, Sequences, FiniteSets, TLC

VARIABLES
    users,        \* the User collection: a set of user documents
    issued,       \* every token the server has signed so far
    now,          \* the clock
    expressMajor, \* the major version of express the build resolved (4 or 5)
    jar,          \* jar[c]: the browser cookie store of client c (optional cookie)
    session,      \* session[c]: "none", "in" (after login/register), "out" (after logout)
    req,          \* req[c]: the request of client c that is in flight, or idle
    catalog,      \* the Product collection: a set of product documents
    pidNext,      \* the next product _id (ObjectIds grow with creation order)
    seed,         \* the POST /api/seed handler in flight, or idle
    lst,          \* lst[r]: the GET /api/products request in slot r
    lat           \* the GET /api/products/latest request

vars == <<users, issued, now, expressMajor, jar, session, req,
          catalog, pidNext, seed, lst, lat>>

authVars == <<users, issued, now, expressMajor, jar, session, req>>
catalogVars == <<catalog, pidNext, seed, lst, lat>>

-----------------------------------------------------------------------------
(* Bounds *)

MaxClock == 1

Clients == {"c1", "c2"}
Emails == {"a@x", "b@x"}
Passwords == {"p", "q"}
Names == {"n"}
Salts == {"s1", "s2"}

\* the _id values the User collection can hand out: one per email (line 30)
UserIds == 1..Cardinality(Emails)

Opt(S) == {<< >>} \cup {<<v>> : v \in S}

-----------------------------------------------------------------------------
(* Session Token Service and Credential Store Adapter *)

\* process.env.JWT_SECRET || 'your-secret-key-here'
JWT_SECRET == "secret"
AttackerKey == "guess"

\* expiresIn: '7d' and maxAge: 7 days, in clock units
ExpiresIn == 1
MaxAge == 1

cookieOptions ==
    [httpOnly |-> TRUE, sameSite |-> "none", secure |-> TRUE, maxAge |-> <<MaxAge>>]

Sign(payload, key) == [payload |-> payload, key |-> key]

\* jwt.sign({ userId }, JWT_SECRET, { expiresIn: '7d' })
JwtSign(userId, key) ==
    LET payload == [userId |-> userId, iat |-> now, exp |-> now + ExpiresIn]
    IN  [payload |-> payload, sig |-> Sign(payload, key)]

JwtVerifyNoExpiry(token, key) == token.sig = Sign(token.payload, key)

\* jwt.verify(token, JWT_SECRET): TRUE when it returns, FALSE when it throws
JwtVerify(token, key) ==
    /\ token.sig = Sign(token.payload, key)
    /\ now < token.payload.exp

\* bcrypt.hash(password, 10) with the per-call salt made explicit
BcryptHash(password, salt) == [salt |-> salt, digest |-> <<salt, password>>]

BcryptCompareSaltOnly(password, hash) == hash.salt \in Salts

\* bcrypt.compare(password, user.password)
BcryptCompare(password, hash) == hash.digest = <<hash.salt, password>>

\* !x for an optional string
Falsy(x) == x = << >> \/ x[1] = ""

\* User.findOne({ email })
FindOneByEmail(email) ==
    IF \E u \in users : u.email = email
    THEN <<CHOOSE u \in users : u.email = email>>
    ELSE << >>

\* User.findById(id)
FindById(id) ==
    IF \E u \in users : u._id = id
    THEN <<CHOOSE u \in users : u._id = id>>
    ELSE << >>

-----------------------------------------------------------------------------
(* Requests and responses *)

NoCookie == << >>
EmptyBody == [name |-> << >>, email |-> << >>, password |-> << >>]

Idle ==
    [kind |-> "idle", pc |-> "idle", body |-> EmptyBody, cookie |-> NoCookie,
     viaJar |-> FALSE, afterLogout |-> FALSE, found |-> << >>, hashed |-> << >>,
     userId |-> << >>, ran |-> FALSE, at |-> 0,
     status |-> 0, message |-> "", setCookie |-> << >>]

NewReq(kind, body, cookie) ==
    [Idle EXCEPT !.kind = kind, !.pc = "start", !.body = body, !.cookie = cookie]

Respond(r, status, message) ==
    [r EXCEPT !.pc = "done", !.status = status, !.message = message]

\* res.cookie('token', value, options) as express serialises it
SetCookieHeader(value, options) ==
    [name |-> "token", value |-> value, path |-> "/",
     expires |-> IF options.maxAge # << >> THEN <<now + options.maxAge[1]>>
                 ELSE options.expires,
     httpOnly |-> options.httpOnly, secure |-> options.secure,
     sameSite |-> options.sameSite]

ClearCookieOptionsNoSecure == [cookieOptions EXCEPT !.secure = FALSE]

\* the options handed to res.clearCookie
ClearCookieOptions == cookieOptions

\* res.clearCookie('token', options): express 4 merges { expires: new Date(1) }
\* under the options and res.cookie then lets maxAge overwrite expires;
\* express 5 drops maxAge and forces expires to the epoch.
ClearCookieHeader(options) ==
    IF expressMajor = 4
    THEN SetCookieHeader(<< >>, [httpOnly |-> options.httpOnly,
                                 sameSite |-> options.sameSite,
                                 secure |-> options.secure,
                                 maxAge |-> options.maxAge,
                                 expires |-> <<0>>])
    ELSE SetCookieHeader(<< >>, [httpOnly |-> options.httpOnly,
                                 sameSite |-> options.sameSite,
                                 secure |-> options.secure,
                                 maxAge |-> << >>,
                                 expires |-> <<0>>])

\* The browser: a Set-Cookie with SameSite=None and no Secure is rejected; an
\* accepted one replaces the cookie of the same name and path (every cookie of
\* this server is named token and has path /), or deletes it when it is
\* already expired.
BrowserStore(old, sc) ==
    IF sc.sameSite = "none" /\ ~sc.secure THEN old
    ELSE IF sc.expires # << >> /\ sc.expires[1] <= now THEN << >>
    ELSE <<sc>>

\* The Cookie header the browser builds from its store: req.cookies.token
JarCookie(c) ==
    IF jar[c] # << >> /\ (jar[c][1].expires = << >> \/ now < jar[c][1].expires[1])
    THEN <<jar[c][1].value>>
    ELSE NoCookie

\* !token for the optional cookie value (a string: << >> is '', <<t>> a JWT)
NoToken(cookie) == cookie = << >> \/ cookie[1] = << >>

-----------------------------------------------------------------------------
(* What a client that is not a browser may put in its Cookie header *)

TamperedPayloads(p) ==
    {[p EXCEPT !.userId = u] : u \in UserIds \ {p.userId}}
        \cup {[p EXCEPT !.exp = MaxClock + 1]}

ForgedTokens ==
    UNION {{[payload |-> q, sig |-> t.sig] : q \in TamperedPayloads(t.payload)} : t \in issued}
    \cup {[payload |-> p, sig |-> Sign(p, AttackerKey)] :
             p \in {[userId |-> u, iat |-> now, exp |-> now + ExpiresIn] : u \in UserIds}}

PresentedCookies ==
    {NoCookie, << << >> >>} \cup {<< <<t>> >> : t \in issued \cup ForgedTokens}

RegisterBodies ==
    {[name |-> n, email |-> e, password |-> p] :
        n \in Opt(Names), e \in Opt(Emails \cup {""}), p \in Opt(Passwords)}

LoginBodies ==
    {[name |-> << >>, email |-> e, password |-> p] :
        e \in Opt(Emails \cup {""}), p \in Opt(Passwords \cup {""})}

-----------------------------------------------------------------------------
(* POST /api/auth/register *)

\* lines 112-117: the request arrives and is validated
RegisterStart(c, body) ==
    /\ req[c].pc = "idle"
    /\ LET r == NewReq("register", body, NoCookie)
       IN  req' = [req EXCEPT ![c] =
                IF Falsy(body.name) \/ Falsy(body.email) \/ Falsy(body.password)
                THEN Respond(r, 400, "All fields are required")
                ELSE [r EXCEPT !.pc = "findOne"]]
    /\ UNCHANGED <<users, issued, now, expressMajor, jar, session, catalogVars>>

\* lines 120-123: await User.findOne({ email })
RegisterFindOne(c) ==
    /\ req[c].kind = "register" /\ req[c].pc = "findOne"
    /\ LET existingUser == FindOneByEmail(req[c].body.email[1])
       IN  req' = [req EXCEPT ![c] =
                IF existingUser # << >>
                THEN Respond(@, 400, "User already exists")
                ELSE [@ EXCEPT !.pc = "hash"]]
    /\ UNCHANGED <<users, issued, now, expressMajor, jar, session, catalogVars>>

\* line 126: await bcrypt.hash(password, 10)
RegisterHash(c, salt) ==
    /\ req[c].kind = "register" /\ req[c].pc = "hash"
    /\ LET r == req[c]
       IN  req' = [req EXCEPT ![c] =
                [r EXCEPT !.pc = "save",
                          !.hashed = <<BcryptHash(r.body.password[1], salt)>>]]
    /\ UNCHANGED <<users, issued, now, expressMajor, jar, session, catalogVars>>

\* lines 129-149: await user.save() under the unique index on email (line 30);
\* a duplicate key makes save() throw, which the catch turns into a 500
RegisterSave(c) ==
    /\ req[c].kind = "register" /\ req[c].pc = "save"
    /\ LET r == req[c]
           user == [_id |-> Cardinality(users) + 1, name |-> r.body.name[1],
                    email |-> r.body.email[1], password |-> r.hashed[1]]
           token == JwtSign(user._id, JWT_SECRET)
       IN  IF \E u \in users : u.email = user.email
           THEN /\ req' = [req EXCEPT ![c] = Respond(r, 500, "Server error")]
                /\ UNCHANGED <<users, issued, catalogVars>>
           ELSE /\ users' = users \cup {user}
                /\ issued' = issued \cup {token}
                /\ req' = [req EXCEPT ![c] =
                        [Respond(r, 201, "User registered successfully") EXCEPT
                            !.userId = <<user._id>>,
                            !.setCookie = <<SetCookieHeader(<<token>>, cookieOptions)>>]]
    /\ UNCHANGED <<now, expressMajor, jar, session, catalogVars>>

-----------------------------------------------------------------------------
(* POST /api/auth/login *)

\* lines 155-160
LoginStart(c, body) ==
    /\ req[c].pc = "idle"
    /\ LET r == NewReq("login", body, NoCookie)
       IN  req' = [req EXCEPT ![c] =
                IF Falsy(body.email) \/ Falsy(body.password)
                THEN Respond(r, 400, "All fields are required")
                ELSE [r EXCEPT !.pc = "findOne"]]
    /\ UNCHANGED <<users, issued, now, expressMajor, jar, session, catalogVars>>

\* lines 163-166: await User.findOne({ email })
LoginFindOne(c) ==
    /\ req[c].kind = "login" /\ req[c].pc = "findOne"
    /\ LET user == FindOneByEmail(req[c].body.email[1])
       IN  req' = [req EXCEPT ![c] =
                IF user = << >>
                THEN Respond(@, 400, "Invalid credentials")
                ELSE [@ EXCEPT !.pc = "compare", !.found = user]]
    /\ UNCHANGED <<users, issued, now, expressMajor, jar, session, catalogVars>>

\* lines 169-183: await bcrypt.compare, then sign and set the cookie
LoginCompare(c) ==
    /\ req[c].kind = "login" /\ req[c].pc = "compare"
    /\ LET r == req[c]
           user == r.found[1]
           isMatch == BcryptCompare(r.body.password[1], user.password)
           token == JwtSign(user._id, JWT_SECRET)
       IN  IF ~isMatch
           THEN /\ req' = [req EXCEPT ![c] = Respond(r, 400, "Invalid credentials")]
                /\ UNCHANGED issued
           ELSE /\ issued' = issued \cup {token}
                /\ req' = [req EXCEPT ![c] =
                        [Respond(r, 200, "Login successful") EXCEPT
                            !.userId = <<user._id>>,
                            !.setCookie = <<SetCookieHeader(<<token>>, cookieOptions)>>]]
    /\ UNCHANGED <<users, now, expressMajor, jar, session, catalogVars>>

-----------------------------------------------------------------------------
(* GET /api/auth/me behind authMiddleware *)

\* lines 91-105, run synchronously when the request arrives; on success
\* next() enters the route handler, which runs up to its await (line 192)
authMiddleware(r) ==
    IF NoToken(r.cookie)
    THEN Respond(r, 401, "No authentication token provided")
    ELSE IF JwtVerify(r.cookie[1][1], JWT_SECRET)
         THEN [r EXCEPT !.userId = <<r.cookie[1][1].payload.userId>>,
                        !.ran = TRUE, !.pc = "findById"]
         ELSE Respond(r, 401, "Invalid token")

\* a browser sends the request with the cookie of its store
MeStartJar(c) ==
    /\ req[c].pc = "idle"
    /\ LET r == [NewReq("me", EmptyBody, JarCookie(c)) EXCEPT
                    !.viaJar = TRUE, !.afterLogout = (session[c] = "out"), !.at = now]
       IN  req' = [req EXCEPT ![c] = authMiddleware(r)]
    /\ UNCHANGED <<users, issued, now, expressMajor, jar, session, catalogVars>>

\* any client sends the request with a Cookie header of its choice
MeStartPresented(c, cookie) ==
    /\ req[c].pc = "idle"
    /\ LET r == [NewReq("me", EmptyBody, cookie) EXCEPT !.at = now]
       IN  req' = [req EXCEPT ![c] = authMiddleware(r)]
    /\ UNCHANGED <<users, issued, now, expressMajor, jar, session, catalogVars>>

\* lines 192-193: await User.findById(req.userId); res.json(user)
MeFindById(c) ==
    /\ req[c].kind = "me" /\ req[c].pc = "findById"
    /\ LET r == req[c]
       IN  req' = [req EXCEPT ![c] =
                [Respond(r, 200, "") EXCEPT !.found = FindById(r.userId[1])]]
    /\ UNCHANGED <<users, issued, now, expressMajor, jar, session, catalogVars>>

-----------------------------------------------------------------------------
(* POST /api/auth/logout *)

\* lines 200-203
Logout(c) ==
    /\ req[c].pc = "idle"
    /\ LET r == NewReq("logout", EmptyBody, JarCookie(c))
       IN  req' = [req EXCEPT ![c] =
                [Respond(r, 200, "Logged out successfully") EXCEPT
                    !.setCookie = <<ClearCookieHeader(ClearCookieOptions)>>]]
    /\ UNCHANGED <<users, issued, now, expressMajor, jar, session, catalogVars>>

-----------------------------------------------------------------------------
(* The client *)

\* the browser of client c reads the response and applies its Set-Cookie
Receive(c) ==
    /\ req[c].pc = "done"
    /\ LET r == req[c]
       IN  /\ jar' = [jar EXCEPT ![c] =
                    IF r.setCookie = << >> THEN @ ELSE BrowserStore(@, r.setCookie[1])]
           /\ session' = [session EXCEPT ![c] =
                    IF r.kind \in {"login", "register"} /\ r.status \in {200, 201}
                    THEN "in"
                    ELSE IF r.kind = "logout" /\ @ = "in" THEN "out" ELSE @]
    /\ req' = [req EXCEPT ![c] = Idle]
    /\ UNCHANGED <<users, issued, now, expressMajor, catalogVars>>

Tick ==
    /\ now < MaxClock
    /\ now' = now + 1
    /\ UNCHANGED <<users, issued, expressMajor, jar, session, req, catalogVars>>

-----------------------------------------------------------------------------
(* Strings, numbers and the JavaScript coercions the product routes apply *)

SeedCount == 3      \* Array.from({ length: 50 }), scaled down
PriceSpread == 2    \* Math.random() * 50, scaled down
MaxSeeds == 1       \* how many POST /api/seed requests are served
PriceBase == 10     \* ... + 10

Slots == {1, 2}

Digits == <<"0", "1", "2", "3", "4", "5", "6", "7", "8", "9">>
UpperCase == <<"A", "B", "C", "D", "E", "F", "G", "H", "I", "J", "K", "L", "M",
               "N", "O", "P", "Q", "R", "S", "T", "U", "V", "W", "X", "Y", "Z">>
LowerCase == <<"a", "b", "c", "d", "e", "f", "g", "h", "i", "j", "k", "l", "m",
               "n", "o", "p", "q", "r", "s", "t", "u", "v", "w", "x", "y", "z">>

Lower(ch) ==
    IF \E i \in 1..Len(UpperCase) : UpperCase[i] = ch
    THEN LowerCase[CHOOSE i \in 1..Len(UpperCase) : UpperCase[i] = ch]
    ELSE ch

IsDigit(ch) == \E i \in 1..10 : Digits[i] = ch
DigitValue(ch) == (CHOOSE i \in 1..10 : Digits[i] = ch) - 1

\* template literal `${i}` for a non-negative integer
RECURSIVE NumStr(_)
NumStr(n) ==
    IF n < 10 THEN <<Digits[n + 1]>>
    ELSE NumStr(n \div 10) \o <<Digits[(n % 10) + 1]>>

Num(n) == [k |-> "num", n |-> n]
NaN == [k |-> "nan", n |-> 0]
Infinity == [k |-> "inf", n |-> 1]

RECURSIVE DigitsValue(_)
DigitsValue(s) ==
    IF s = << >> THEN 0
    ELSE 10 * DigitsValue(SubSeq(s, 1, Len(s) - 1)) + DigitValue(s[Len(s)])

\* Number(s) / ToNumber(s) of a string: '' is 0, an optionally signed run of
\* decimal digits is its value, anything else over the model's alphabet is NaN
ToNumber(s) ==
    IF s = << >> THEN Num(0)
    ELSE LET signed == s[1] \in {"-", "+"}
             body == IF signed THEN Tail(s) ELSE s
         IN  IF body # << >> /\ \A i \in 1..Len(body) : IsDigit(body[i])
             THEN Num(IF s[1] = "-" THEN 0 - DigitsValue(body) ELSE DigitsValue(body))
             ELSE NaN

\* a - b and a * b on numbers (no infinities arise from the inputs used)
JsSub(a, b) == IF a.k = "num" /\ b.k = "num" THEN Num(a.n - b.n) ELSE NaN
JsMul(a, b) == IF a.k = "num" /\ b.k = "num" THEN Num(a.n * b.n) ELSE NaN

\* ceil(a / b) for integers a >= 0, b > 0
CeilDiv(a, b) == (a + b - 1) \div b

\* Math.ceil(total / limit) for an integer total >= 0
JsCeilDiv(total, limit) ==
    IF limit.k # "num" THEN NaN
    ELSE IF limit.n = 0 THEN (IF total = 0 THEN NaN ELSE Infinity)
    ELSE IF limit.n > 0 THEN Num(CeilDiv(total, limit.n))
    ELSE Num(0 - (total \div (0 - limit.n)))

\* if (x) for an optional string: undefined and '' are falsy
Truthy(x) == x # << >> /\ x[1] # << >>

-----------------------------------------------------------------------------
(* The catalog *)

Fruits == <<"F", "r", "u", "i", "t", "s">>
Dairy == <<"D", "a", "i", "r", "y">>
FreshFarm == <<"F", "r", "e", "s", "h", "F", "a", "r", "m">>
OrganicPro == <<"O", "r", "g", "a", "n", "i", "c", "P", "r", "o">>
GreenValley == <<"G", "r", "e", "e", "n", "V", "a", "l", "l", "e", "y">>

\* the first entries of the arrays of lines 324-325
categories == <<Fruits, Dairy>>
brands == <<FreshFarm, OrganicPro, GreenValley>>

\* lines 327-339: the i-th generated product (i from 0); documents carry the
\* paths of productSchema only, so none has a createdAt
SeedProduct(i, price, id) ==
    LET category == categories[(i % Len(categories)) + 1]
        brand == brands[(i % Len(brands)) + 1]
    IN  [_id |-> id,
         name |-> <<"P", "r", "o", "d", "u", "c", "t", " ">> \o NumStr(i + 1),
         title |-> <<"P", "r", "e", "m", "i", "u", "m", " ">> \o category
                       \o <<" ", "I", "t", "e", "m", " ">> \o NumStr(i + 1),
         brand |-> brand, category |-> category, price |-> price]

\* Math.floor(Math.random() * 50) + 10
SeedPrices == PriceBase .. (PriceBase + PriceSpread - 1)

-----------------------------------------------------------------------------
(* Query Builder: lines 210-244 *)

NoQuery ==
    [page |-> << >>, limit |-> << >>, search |-> << >>, sortBy |-> << >>,
     order |-> << >>, category |-> << >>, brand |-> << >>,
     minPrice |-> << >>, maxPrice |-> << >>]

\* page = 1 and limit = 8 when the parameter is undefined
PageOf(q) == IF q.page = << >> THEN Num(1) ELSE ToNumber(q.page[1])
LimitOf(q) == IF q.limit = << >> THEN Num(8) ELSE ToNumber(q.limit[1])

\* const skip = (page - 1) * limit
SkipOf(q) == JsMul(JsSub(PageOf(q), Num(1)), LimitOf(q))

\* lines 223-240: each part of the filter is present only if its parameter is truthy
BuildQuery(q) ==
    [or |-> IF Truthy(q.search) THEN q.search ELSE << >>,
     category |-> IF Truthy(q.category) THEN q.category ELSE << >>,
     brand |-> IF Truthy(q.brand) THEN q.brand ELSE << >>,
     gte |-> IF Truthy(q.minPrice) THEN <<ToNumber(q.minPrice[1])>> ELSE << >>,
     lte |-> IF Truthy(q.maxPrice) THEN <<ToNumber(q.maxPrice[1])>> ELSE << >>]

\* lines 243-244
SortOptions(q) ==
    [key |-> IF q.sortBy = << >> THEN "createdAt" ELSE q.sortBy[1],
     dir |-> IF q.order = <<"asc">> THEN 1 ELSE 0 - 1]

-----------------------------------------------------------------------------
(* The document store: $regex, filters, sort, skip, limit, count *)

\* one pattern character against one text character under $options: 'i';
\* the model's patterns use literals and the wildcard "."
CharMatches(pc, ch) == pc = "." \/ Lower(pc) = Lower(ch)

\* { $regex: pattern, $options: 'i' }: the pattern matches somewhere in the text
RegexMatches(text, pattern) ==
    \E start \in 1..(Len(text) - Len(pattern) + 1) :
        \A j \in 1..Len(pattern) : CharMatches(pattern[j], text[start + j - 1])

Matches(p, query) ==
    /\ query.or # << >> =>
           \/ RegexMatches(p.name, query.or[1])
           \/ RegexMatches(p.title, query.or[1])
           \/ RegexMatches(p.brand, query.or[1])
           \/ RegexMatches(p.category, query.or[1])
    /\ query.category # << >> => p.category = query.category[1]
    /\ query.brand # << >> => p.brand = query.brand[1]
    /\ query.gte # << >> => query.gte[1].k = "num" /\ p.price >= query.gte[1].n
    /\ query.lte # << >> => query.lte[1].k = "num" /\ p.price <= query.lte[1].n

FindMatchingNoCategory(query) ==
    {p \in catalog : Matches(p, [query EXCEPT !.category = << >>])}

\* the documents Product.find(query) selects
FindMatching(query) == {p \in catalog : Matches(p, query)}

\* Product.countDocuments(query)
CountDocuments(query) == Cardinality({p \in catalog : Matches(p, query)})

\* the sort key of a document: productSchema declares price but no createdAt,
\* so a sort on createdAt (or any other undeclared path) finds no value
SortKey(p, key) == IF key = "price" THEN p.price ELSE 0

Perms(S) ==
    {f \in [1..Cardinality(S) -> S] : \A i, j \in 1..Cardinality(S) : f[i] = f[j] => i = j}

\* .sort({ key: dir }): every order of the documents that respects the key;
\* documents with equal keys come in whatever order the store produces
SortedOrders(S, sort) ==
    {f \in Perms(S) :
        \A i \in 1..(Cardinality(S) - 1) :
            IF sort.dir = 1
            THEN SortKey(f[i], sort.key) <= SortKey(f[i + 1], sort.key)
            ELSE SortKey(f[i], sort.key) >= SortKey(f[i + 1], sort.key)}

\* .skip(n).limit(m) on a cursor; limit 0 means no limit
SkipLimit(ord, n, m) ==
    LET rest == IF n >= Len(ord) THEN << >> ELSE SubSeq(ord, n + 1, Len(ord))
    IN  IF m = 0 \/ m >= Len(rest) THEN rest ELSE SubSeq(rest, 1, m)

\* what the store does with the skip and limit it is handed: a negative skip
\* is rejected; a negative limit is a single batch of that size; NaN is
\* either rejected or taken as 0, depending on the driver and server
CursorOutcomes(skip, limit) ==
    IF skip.k = "num" /\ skip.n < 0 THEN {[ok |-> FALSE, skip |-> 0, limit |-> 0]}
    ELSE LET n == IF skip.k = "num" THEN skip.n ELSE 0
             m == IF limit.k = "num"
                  THEN (IF limit.n < 0 THEN 0 - limit.n ELSE limit.n) ELSE 0
         IN  {[ok |-> TRUE, skip |-> n, limit |-> m]} \cup
             (IF skip.k = "num" /\ limit.k = "num" THEN {}
              ELSE {[ok |-> FALSE, skip |-> 0, limit |-> 0]})

-----------------------------------------------------------------------------
(* GET /api/products: lines 208-267 *)

IdleList ==
    [pc |-> "idle", q |-> NoQuery, products |-> << >>, writes |-> "none",
     status |-> 0, page |-> Num(0), limit |-> Num(0), total |-> 0, pages |-> Num(0)]

\* lines 210-251: build the query and await Product.find(...).sort().skip().limit()
ListFind(r, q) ==
    /\ lst[r].pc = "idle"
    /\ \E out \in CursorOutcomes(SkipOf(q), LimitOf(q)) :
        \E ord \in SortedOrders(FindMatching(BuildQuery(q)), SortOptions(q)) :
            lst' = [lst EXCEPT ![r] =
                IF out.ok
                THEN [IdleList EXCEPT !.pc = "count", !.q = q,
                         !.page = PageOf(q), !.limit = LimitOf(q),
                         !.products = SkipLimit(ord, out.skip, out.limit)]
                ELSE [IdleList EXCEPT !.pc = "done", !.q = q, !.status = 500,
                         !.page = PageOf(q), !.limit = LimitOf(q)]]
    /\ UNCHANGED <<authVars, catalog, pidNext, seed, lat>>

\* lines 253-263: await Product.countDocuments(query), then res.json
ListCount(r) ==
    /\ lst[r].pc = "count"
    /\ LET total == CountDocuments(BuildQuery(lst[r].q))
       IN  lst' = [lst EXCEPT ![r] =
                [@ EXCEPT !.pc = "done", !.status = 200, !.total = total,
                          !.pages = JsCeilDiv(total, LimitOf(lst[r].q))]]
    /\ UNCHANGED <<authVars, catalog, pidNext, seed, lat>>

\* the client has read the response
ListReceive(r) ==
    /\ lst[r].pc = "done"
    /\ lst' = [lst EXCEPT ![r] = IdleList]
    /\ UNCHANGED <<authVars, catalog, pidNext, seed, lat>>

-----------------------------------------------------------------------------
(* GET /api/products/latest: lines 270-281 *)

IdleLatest == [pc |-> "idle", limit |-> << >>, products |-> << >>, of |-> {}, status |-> 0]

\* const limit = req.query.limit || 10
LatestLimit(raw) == IF Truthy(raw) THEN ToNumber(raw[1]) ELSE Num(10)

\* Product.find().sort({ createdAt: -1 }).limit(Number(limit))
Latest(raw) ==
    /\ lat.pc = "idle"
    /\ \E out \in CursorOutcomes(Num(0), LatestLimit(raw)) :
        \E ord \in SortedOrders(FindMatching(BuildQuery(NoQuery)),
                                [key |-> "createdAt", dir |-> 0 - 1]) :
            lat' = IF out.ok
                   THEN [pc |-> "done", limit |-> raw, of |-> catalog, status |-> 200,
                         products |-> SkipLimit(ord, 0, out.limit)]
                   ELSE [pc |-> "done", limit |-> raw, of |-> catalog, status |-> 500,
                         products |-> << >>]
    /\ UNCHANGED <<authVars, catalog, pidNext, seed, lst>>

LatestReceive ==
    /\ lat.pc = "done"
    /\ lat' = IdleLatest
    /\ UNCHANGED <<authVars, catalog, pidNext, seed, lst>>

-----------------------------------------------------------------------------
(* POST /api/seed: lines 319-362 *)

IdleSeed == [pc |-> "idle", i |-> 0, served |-> 0]

\* a write of the seed handler lands between the two reads of every list
\* request that has done its find and not yet its count
NoteWrite(kind) ==
    [r \in Slots |->
        IF lst[r].pc = "count" /\ (kind = "delete" \/ lst[r].writes = "none")
        THEN [lst[r] EXCEPT !.writes = kind]
        ELSE lst[r]]

\* the request arrives; the handler runs up to its first await
SeedStart ==
    /\ seed.pc = "idle"
    /\ seed.served < MaxSeeds
    /\ seed' = [seed EXCEPT !.pc = "delete", !.served = @ + 1]
    /\ UNCHANGED <<authVars, catalog, pidNext, lst, lat>>

\* line 321: await Product.deleteMany({})
SeedDeleteMany ==
    /\ seed.pc = "delete"
    /\ catalog' = {}
    /\ lst' = NoteWrite("delete")
    /\ seed' = [seed EXCEPT !.pc = "insert", !.i = 0]
    /\ UNCHANGED <<authVars, pidNext, lat>>

\* line 357: await Product.insertMany(products); the documents become visible
\* one after the other, in array order
SeedInsertOne(price) ==
    /\ seed.pc = "insert"
    /\ seed.i < SeedCount
    /\ catalog' = catalog \cup {SeedProduct(seed.i, price, pidNext)}
    /\ pidNext' = pidNext + 1
    /\ lst' = NoteWrite("insert")
    /\ seed' = [seed EXCEPT !.i = @ + 1]
    /\ UNCHANGED <<authVars, lat>>

\* line 358: res.json
SeedRespond ==
    /\ seed.pc = "insert"
    /\ seed.i = SeedCount
    /\ seed' = [seed EXCEPT !.pc = "idle", !.i = 0]
    /\ UNCHANGED <<authVars, catalog, pidNext, lst, lat>>

-----------------------------------------------------------------------------
(* Specifications of the session lifecycle *)

\* the catalog side does not take part in the session lifecycle
CatalogAtRest ==
    /\ catalog = {}
    /\ pidNext = 1
    /\ seed = IdleSeed
    /\ lst = [r \in Slots |-> IdleList]
    /\ lat = IdleLatest

InitAuth ==
    /\ users = {}
    /\ issued = {}
    /\ now = 0
    /\ expressMajor \in {4, 5}
    /\ jar = [c \in Clients |-> << >>]
    /\ session = [c \in Clients |-> "none"]
    /\ req = [c \in Clients |-> Idle]
    /\ CatalogAtRest

\* one browser (and whatever else uses its connection) against the server
NextSession ==
    \/ \E body \in RegisterBodies : RegisterStart("c1", body)
    \/ RegisterFindOne("c1")
    \/ \E salt \in Salts : RegisterHash("c1", salt)
    \/ RegisterSave("c1")
    \/ \E body \in LoginBodies : LoginStart("c1", body)
    \/ LoginFindOne("c1")
    \/ LoginCompare("c1")
    \/ MeStartJar("c1")
    \/ \E cookie \in PresentedCookies : MeStartPresented("c1", cookie)
    \/ MeFindById("c1")
    \/ Logout("c1")
    \/ Receive("c1")
    \/ Tick

SpecSession == InitAuth /\ [][NextSession]_vars

\* two clients, one registration each, interleaved at every await
NextRegister ==
    \E c \in Clients :
        \/ \E body \in RegisterBodies : RegisterStart(c, body)
        \/ RegisterFindOne(c)
        \/ \E salt \in Salts : RegisterHash(c, salt)
        \/ RegisterSave(c)

SpecRegister == InitAuth /\ [][NextRegister]_vars

-----------------------------------------------------------------------------
(* Properties of the session lifecycle *)

\* the token a Cookie header carries, if it carries one
Carried(cookie) == IF NoToken(cookie) THEN << >> ELSE cookie[1]

\* the stored hash is a bcrypt hash of this password
IsHashOf(hash, password) == \E salt \in Salts : hash = BcryptHash(password, salt)

\* C1: GET /api/auth/me answers 401 without running the route handler when the
\* request has no token cookie, a token that was not signed by the server as it
\* stands (tampered) or a token whose expiry has passed when the request
\* arrives; with an unexpired token issued for user U the handler runs with
\* req.userId = U.
C1_AuthGate ==
    \A c \in Clients :
        LET r == req[c]
            t == Carried(r.cookie)
        IN  r.kind = "me" =>
                IF t # << >> /\ t[1] \in issued /\ r.at < t[1].payload.exp
                THEN /\ r.ran
                     /\ r.userId = <<t[1].payload.userId>>
                     /\ r.pc \in {"findById", "done"}
                     /\ r.pc = "done" => r.status = 200
                ELSE /\ r.pc = "done"
                     /\ r.status = 401
                     /\ ~r.ran
                     /\ r.found = << >>

\* an issued token, presented after its expiry, is turned away
C1_Witness ==
    \E c \in Clients :
        LET r == req[c]
            t == Carried(r.cookie)
        IN  /\ r.kind = "me" /\ r.pc = "done" /\ r.status = 401
            /\ t # << >> /\ t[1] \in issued /\ r.at >= t[1].payload.exp

\* C2: POST /api/auth/login sets the token cookie only when a user with the
\* given email exists and the given password is the one its stored hash was
\* made from, and the token carries that user's id; otherwise (missing field,
\* unknown email, wrong password) it answers 400 and sets no cookie.
C2_LoginCookie ==
    \A c \in Clients :
        LET r == req[c]
            present == ~Falsy(r.body.email) /\ ~Falsy(r.body.password)
            match == IF present
                     THEN {u \in users : /\ u.email = r.body.email[1]
                                         /\ IsHashOf(u.password, r.body.password[1])}
                     ELSE {}
        IN  r.kind = "login" /\ r.pc = "done" =>
                IF match # {}
                THEN /\ r.status = 200
                     /\ r.setCookie # << >>
                     /\ r.setCookie[1].value # << >>
                     /\ \E u \in match :
                            r.setCookie[1].value[1].payload.userId = u._id
                     /\ r.setCookie[1].value[1] \in issued
                ELSE /\ r.status = 400
                     /\ r.setCookie = << >>

\* a login with the right password while another user exists, and one with a
\* wrong password for an existing user, are both reachable; this is the first
C2_Witness ==
    \E c \in Clients :
        /\ req[c].kind = "login" /\ req[c].pc = "done" /\ req[c].status = 200
        /\ Cardinality(users) = 2
        /\ req[c].setCookie # << >>
        /\ req[c].setCookie[1].value[1].payload.userId = 2

\* C3: two registrations with all fields present and the same email, in every
\* interleaving of their store operations: exactly one is answered 201, the
\* other 400 "User already exists", and one record holds that email.
C3_OneCreatedOneConflict ==
    LET a == req["c1"]
        b == req["c2"]
    IN  (/\ a.kind = "register" /\ b.kind = "register"
         /\ a.pc = "done" /\ b.pc = "done"
         /\ ~Falsy(a.body.name) /\ ~Falsy(a.body.email) /\ ~Falsy(a.body.password)
         /\ ~Falsy(b.body.name) /\ ~Falsy(b.body.email) /\ ~Falsy(b.body.password)
         /\ a.body.email = b.body.email)
        => /\ \/ a.status = 201 /\ b.status = 400 /\ b.message = "User already exists"
              \/ b.status = 201 /\ a.status = 400 /\ a.message = "User already exists"
           /\ Cardinality({u \in users : u.email = a.body.email[1]}) = 1

\* C4: logout clears the token cookie with the attributes it was set with,
\* and from the browser's logout until its next successful login or register
\* every GET /api/auth/me it sends with its cookie store is answered 401.
C4_LoggedOutStaysOut ==
    \A c \in Clients :
        LET r == req[c]
            set == SetCookieHeader(<< >>, cookieOptions)
        IN  /\ (r.kind = "logout" /\ r.pc = "done") =>
                    /\ r.setCookie # << >>
                    /\ r.setCookie[1].name = set.name
                    /\ r.setCookie[1].path = set.path
                    /\ r.setCookie[1].httpOnly = set.httpOnly
                    /\ r.setCookie[1].secure = set.secure
                    /\ r.setCookie[1].sameSite = set.sameSite
            /\ (r.kind = "me" /\ r.viaJar /\ r.afterLogout) =>
                    r.pc = "done" /\ r.status = 401 /\ ~r.ran

\* a browser that logged in and out asks for /me while the token it was given
\* would still verify
C4_Witness ==
    \E c \in Clients :
        /\ req[c].kind = "me" /\ req[c].viaJar /\ req[c].afterLogout
        /\ req[c].pc = "done" /\ req[c].status = 401
        /\ \E t \in issued : JwtVerify(t, JWT_SECRET)

-----------------------------------------------------------------------------
(* Specifications of the catalog routes *)

\* the session side does not take part in the catalog routes
AuthAtRest ==
    /\ users = {}
    /\ issued = {}
    /\ now = 0
    /\ expressMajor = 5
    /\ jar = [c \in Clients |-> << >>]
    /\ session = [c \in Clients |-> "none"]
    /\ req = [c \in Clients |-> Idle]

\* the collections a completed POST /api/seed leaves in the database; the
\* server starts on one of them (lines 67-73: products exist, seeding is skipped)
SeededCatalogs ==
    {{SeedProduct(i - 1, f[i], i) : i \in 1..SeedCount} :
        f \in [1..SeedCount -> SeedPrices]}

Queries ==
    {[page |-> pg, limit |-> lm, search |-> se, sortBy |-> sb, order |-> od,
      category |-> ca, brand |-> br, minPrice |-> mn, maxPrice |-> mx] :
        pg \in Opt({<<"0">>, <<"2">>}),
        lm \in Opt({<<"0">>, <<"2">>, <<"x">>}),
        se \in Opt({<< >>, <<"f", "r", "u", "i", "t">>, <<".">>}),
        sb \in Opt({"price"}), od \in Opt({"asc"}),
        ca \in Opt({Fruits}), br \in Opt({FreshFarm}),
        mn \in Opt({<<"1", "1">>}), mx \in Opt({<<"1", "0">>})}

PageQueries ==
    {[NoQuery EXCEPT !.page = pg, !.limit = lm, !.sortBy = sb, !.category = ca] :
        pg \in Opt({<<"1">>, <<"2">>}), lm \in Opt({<<"1">>, <<"2">>}),
        sb \in Opt({"price"}), ca \in Opt({Fruits})}

RaceQueries ==
    {[NoQuery EXCEPT !.page = pg, !.limit = lm, !.category = ca] :
        pg \in Opt({<<"2">>}), lm \in Opt({<<"1">>}), ca \in Opt({Fruits})}

LatestLimits == Opt({<<"1">>, <<"2">>})

InitStable ==
    /\ AuthAtRest
    /\ catalog \in SeededCatalogs
    /\ pidNext = SeedCount + 1
    /\ seed = IdleSeed
    /\ lst = [r \in Slots |-> IdleList]
    /\ lat = IdleLatest

\* one list request at a time on a catalog that does not change
NextQuery ==
    \/ \E q \in Queries : ListFind(1, q)
    \/ ListCount(1)
    \/ ListReceive(1)

SpecQuery == InitStable /\ [][NextQuery]_vars

\* two list requests on a catalog that does not change
NextPages ==
    \E r \in Slots :
        \/ \E q \in PageQueries : ListFind(r, q)
        \/ ListCount(r)
        \/ ListReceive(r)

SpecPages == InitStable /\ [][NextPages]_vars

InitReseed ==
    /\ AuthAtRest
    /\ catalog = {SeedProduct(i - 1, PriceBase, i) : i \in 1..SeedCount}
    /\ pidNext = SeedCount + 1
    /\ seed = IdleSeed
    /\ lst = [r \in Slots |-> IdleList]
    /\ lat = IdleLatest

\* GET /api/products next to POST /api/seed
NextReseed ==
    \/ SeedStart
    \/ SeedDeleteMany
    \/ \E price \in SeedPrices : SeedInsertOne(price)
    \/ SeedRespond
    \/ \E q \in RaceQueries : ListFind(1, q)
    \/ ListCount(1)
    \/ ListReceive(1)

SpecReseed == InitReseed /\ [][NextReseed]_vars

\* GET /api/products/latest next to POST /api/seed
NextLatest ==
    \/ SeedStart
    \/ SeedDeleteMany
    \/ \E price \in SeedPrices : SeedInsertOne(price)
    \/ SeedRespond
    \/ \E raw \in LatestLimits : Latest(raw)
    \/ LatestReceive

SpecLatest == InitReseed /\ [][NextLatest]_vars

-----------------------------------------------------------------------------
(* Properties of the catalog routes *)

\* text contains s, compared without regard to case
ContainsIgnoringCase(text, s) ==
    \E start \in 1..(Len(text) - Len(s) + 1) :
        \A j \in 1..Len(s) : Lower(text[start + j - 1]) = Lower(s[j])

\* the filter predicates as the specification words them: a predicate for
\* each parameter that is present and not empty, the search one a substring
\* test on name, title, brand and category
SatisfiesPredicates(p, q) ==
    /\ Truthy(q.category) => p.category = q.category[1]
    /\ Truthy(q.brand) => p.brand = q.brand[1]
    /\ Truthy(q.minPrice) => p.price >= ToNumber(q.minPrice[1]).n
    /\ Truthy(q.maxPrice) => p.price <= ToNumber(q.maxPrice[1]).n
    /\ Truthy(q.search) =>
           \/ ContainsIgnoringCase(p.name, q.search[1])
           \/ ContainsIgnoringCase(p.title, q.search[1])
           \/ ContainsIgnoringCase(p.brand, q.search[1])
           \/ ContainsIgnoringCase(p.category, q.search[1])

\* C5: on an unchanging catalog every answer of GET /api/products reports
\* pagination.total = the number of products that satisfy the filter
\* predicates, whatever page and limit are, and pagination.pages =
\* ceil(total / limit).
C5_TotalAndPages ==
    LET r == lst[1]
    IN  (r.pc = "done" /\ r.status = 200) =>
            /\ r.total = Cardinality({p \in catalog : SatisfiesPredicates(p, r.q)})
            /\ r.limit.k = "num" /\ r.limit.n # 0
            /\ r.pages = IF r.limit.n > 0
                         THEN Num(CeilDiv(r.total, r.limit.n))
                         ELSE Num(0 - (r.total \div (0 - r.limit.n)))

\* C5 restricted to what the code does guarantee: with a limit that is a
\* positive number and a search string free of regular-expression operators
C5_OnPlainInput ==
    LET r == lst[1]
    IN  (/\ r.pc = "done" /\ r.status = 200
         /\ r.limit.k = "num" /\ r.limit.n > 0
         /\ r.q.search # <<<<".">>>>)
        => /\ r.total = Cardinality({p \in catalog : SatisfiesPredicates(p, r.q)})
           /\ r.pages = Num(CeilDiv(r.total, r.limit.n))

\* C6: every product GET /api/products returns satisfies all the predicates
\* whose parameter is present: exact category, exact brand, inclusive price
\* bounds, and for a non-empty search a case-insensitive substring match in
\* name, title, brand or category.
C6_ResultsSatisfyPredicates ==
    LET r == lst[1]
    IN  (r.pc = "done" /\ r.status = 200) =>
            \A i \in 1..Len(r.products) : SatisfiesPredicates(r.products[i], r.q)

\* the same filter and sort parameters
SameSelection(q1, q2) ==
    /\ q1.search = q2.search /\ q1.category = q2.category /\ q1.brand = q2.brand
    /\ q1.minPrice = q2.minPrice /\ q1.maxPrice = q2.maxPrice
    /\ q1.sortBy = q2.sortBy /\ q1.order = q2.order

\* C7: on an unchanging catalog, page 1 and page 2 of the same filters, sort
\* and limit are disjoint and are the first and the next limit items of one
\* and the same filtered and sorted order; and every answer has at most
\* limit items.
C7_PagesAreSlicesOfOneOrder ==
    LET a == lst[1]
        b == lst[2]
    IN  /\ \A r \in Slots :
              (lst[r].pc = "done" /\ lst[r].status = 200 /\ lst[r].limit.k = "num")
                  => Len(lst[r].products) <= lst[r].limit.n
        /\ (/\ a.pc = "done" /\ a.status = 200 /\ b.pc = "done" /\ b.status = 200
            /\ SameSelection(a.q, b.q)
            /\ a.limit = b.limit /\ a.limit.k = "num" /\ a.limit.n > 0
            /\ a.page = Num(1) /\ b.page = Num(2))
           => /\ \A i \in 1..Len(a.products) : \A j \in 1..Len(b.products) :
                     a.products[i] # b.products[j]
              /\ \E ord \in SortedOrders(FindMatching(BuildQuery(a.q)), SortOptions(a.q)) :
                     /\ a.products = SkipLimit(ord, 0, a.limit.n)
                     /\ b.products = SkipLimit(ord, a.limit.n, a.limit.n)

\* C8: the page and limit handed to the store and reported in pagination are
\* integers with limit > 0 and page >= 1; page is 1 and limit is 8 when the
\* parameter is absent.
C8_PageLimitInvariant ==
    LET r == lst[1]
    IN  r.pc \in {"count", "done"} =>
            /\ r.page.k = "num" /\ r.page.n >= 1
            /\ r.limit.k = "num" /\ r.limit.n > 0
            /\ r.q.page = << >> => r.page = Num(1)
            /\ r.q.limit = << >> => r.limit = Num(8)

\* the n most recently created documents of S, most recent first
MostRecentFirst(S, n) ==
    LET ord == CHOOSE f \in Perms(S) :
                   \A i \in 1..(Cardinality(S) - 1) : f[i]._id > f[i + 1]._id
    IN  SkipLimit(ord, 0, n)

\* C9: GET /api/products/latest with limit n returns the min(n, catalog size)
\* most recently created products, most recent first, unfiltered.
C9_LatestAreMostRecent ==
    lat.pc = "done" =>
        /\ lat.status = 200
        /\ lat.products = MostRecentFirst(lat.of, LatestLimit(lat.limit).n)

\* C10 as claimed: whatever a concurrent POST /api/seed does between the two
\* reads, GET /api/products returns at most pagination.total products.
C10_AtMostTotal ==
    \A r \in Slots :
        (lst[r].pc = "done" /\ lst[r].status = 200)
            => Len(lst[r].products) <= lst[r].total

\* C10 as amended: unless the deleteMany of a concurrent POST /api/seed took
\* effect between the handler's find and its countDocuments, GET /api/products
\* returns at most pagination.total products.
C10_AtMostTotalUnlessDeleted ==
    \A r \in Slots :
        (lst[r].pc = "done" /\ lst[r].status = 200 /\ lst[r].writes # "delete")
            => Len(lst[r].products) <= lst[r].total

\* a request whose two reads were separated by an insert of the reseed
C10_Witness ==
    \E r \in Slots :
        /\ lst[r].pc = "done" /\ lst[r].status = 200 /\ lst[r].writes = "insert"
        /\ lst[r].products # << >>
        /\ Len(lst[r].products) < lst[r].total

=============================================================================
